---- MODULE Spec2Model ----
(***************************************************************************)
(* Model of the entry formatter of a2b (src/features/EntryCard.tsx):       *)
(* joinAuthorsGetKey, buildPairing, formatEntry and the EntryCard          *)
(* component that calls them.                                              *)
(*                                                                         *)
(* A JavaScript string is a sequence of one-character strings.  The        *)
(* accented letter e-acute is the single character written "e'" here.      *)
(* A value of the pairing is a record [kind, s, href]: kind "null" for     *)
(* null and undefined, "str" for a string s, "a" and "abbr" for the JSX    *)
(* elements <a href=...>s</a> and <abbr title=...>s</abbr>.                *)
(***************************************************************************)
EXTENDS Integers, Sequences, FiniteSets, TLC

VARIABLES
    entry,          \* the `entry` prop of EntryCard
    settings,       \* the settings selected from the redux state
    type,           \* buildPairing's return: entry.type
    pairing,        \* the pairing, as formatEntry leaves it
    key,            \* buildPairing's return: the citation key
    wget,           \* buildPairing's return: the wget command or null
    formattedEntry, \* the text of the <pre> block
    shownWget,      \* the text of the wget block EntryCard shows, or null
    edits,          \* number of prop / settings changes so far
    kAuthors,       \* joinAuthorsGetKey: argument `authors`
    kDate,          \* joinAuthorsGetKey: argument `date`
    kResult,        \* joinAuthorsGetKey: the returned { key, authorList }
    kDone           \* joinAuthorsGetKey has returned

vars == <<entry, settings, type, pairing, key, wget, formattedEntry, shownWget,
          edits, kAuthors, kDate, kResult, kDone>>

renderVars == <<entry, settings, type, pairing, key, wget, formattedEntry,
                shownWget, edits>>

keyVars == <<kAuthors, kDate, kResult, kDone>>

-----------------------------------------------------------------------------
(* Bounds of the model. *)

\* number of changes of the entry or of the settings after the first render
MaxEdits == 2

\* total number of characters of the author names given to joinAuthorsGetKey
MaxTotalLen == 6

-----------------------------------------------------------------------------
(* Characters and strings. *)

SP == " "

NL == "\n"

EAcute == "e'"

Whitespace == {SP, NL}

Min(a, b) == IF a < b THEN a ELSE b

\* String.prototype.repeat applied to " "
Spaces(n) == [i \in 1..n |-> SP]

\* String.prototype.slice(0, n)
Slice0(s, n) == SubSeq(s, 1, Min(n, Len(s)))

\* Array.prototype.join
RECURSIVE Join(_, _)
Join(l, sep) ==
    IF Len(l) = 0 THEN <<>>
    ELSE IF Len(l) = 1 THEN l[1]
    ELSE l[1] \o sep \o Join(Tail(l), sep)

\* the string "undefined", which JavaScript writes for an undefined operand
Undefined == <<"u", "n", "d", "e", "f", "i", "n", "e", "d">>

\* l[l.length - 1] used as a string operand
LastOrUndefined(l) == IF Len(l) = 0 THEN Undefined ELSE l[Len(l)]

\* s[0] used as a string operand
FirstOrUndefined(s) == IF Len(s) = 0 THEN Undefined ELSE <<s[1]>>

\* l.slice(0, -1)
ButLast(l) == IF Len(l) = 0 THEN <<>> ELSE SubSeq(l, 1, Len(l) - 1)

-----------------------------------------------------------------------------
(* ../utils: splitter and removeAccents. *)

\* splitter(a, /\s+/): the tokens of a, split at every run of whitespace
RECURSIVE SplitFrom(_, _, _)
SplitFrom(s, i, cur) ==
    IF i > Len(s)
    THEN IF cur = <<>> THEN <<>> ELSE <<cur>>
    ELSE IF s[i] \in Whitespace
         THEN (IF cur = <<>> THEN <<>> ELSE <<cur>>) \o SplitFrom(s, i + 1, <<>>)
         ELSE SplitFrom(s, i + 1, Append(cur, s[i]))

splitter(s) == SplitFrom(s, 1, <<>>)

\* removeAccents: every accented letter becomes its base letter
removeAccents(s) == [i \in 1..Len(s) |-> IF s[i] = EAcute THEN "e" ELSE s[i]]

-----------------------------------------------------------------------------
(* joinAuthorsGetKey *)

YearLen == 4

CommaSpace == <<",", SP>>

AndSep == <<SP, "a", "n", "d", SP>>

\* a mutant: the first token taken for the surname
FormatAuthor_firstToken(l) ==
    (IF Len(l) = 0 THEN Undefined ELSE l[1]) \o CommaSpace \o Join(ButLast(l), <<SP>>)

\* l[l.length - 1] + ", " + l.slice(0, -1).join(" ")
FormatAuthor(l) == LastOrUndefined(l) \o CommaSpace \o Join(ButLast(l), <<SP>>)

joinAuthorsGetKey(authors, date) ==
    LET splitAuthors == [i \in 1..Len(authors) |-> splitter(authors[i])]
        authorList == Join([i \in 1..Len(authors) |-> FormatAuthor(splitAuthors[i])],
                           AndSep)
        year == Slice0(date, YearLen)
        unformattedKey ==
            Join([i \in 1..Len(authors) |-> LastOrUndefined(splitAuthors[i])], <<>>)
            \o year
    IN  [key |-> removeAccents(unformattedKey), authorList |-> authorList]

-----------------------------------------------------------------------------
(* Values of entry fields and of the pairing. *)

Null == [kind |-> "null", s |-> <<>>, href |-> <<>>]

Str(s) == [kind |-> "str", s |-> s, href |-> <<>>]

\* <a href={href}>{s}</a>
A(href, s) == [kind |-> "a", s |-> s, href |-> href]

\* <abbr title="Consider converting ...">{s}</abbr>
Abbr(s) == [kind |-> "abbr", s |-> s, href |-> <<>>]

\* JavaScript truthiness: null, undefined and "" are falsy, an element is truthy
Truthy(v) == CASE v.kind = "null" -> FALSE
               [] v.kind = "str" -> v.s # <<>>
               [] OTHER -> TRUE

\* the text a value contributes to the <pre> block
Text(v) == v.s

-----------------------------------------------------------------------------
(* Field names and literal strings. *)

F_author == <<"a", "u", "t", "h", "o", "r">>

F_date == <<"d", "a", "t", "e">>

F_year == <<"y", "e", "a", "r">>

F_title == <<"t", "i", "t", "l", "e">>

F_journaltitle == <<"j", "o", "u", "r", "n", "a", "l", "t", "i", "t", "l", "e">>

F_journal == <<"j", "o", "u", "r", "n", "a", "l">>

F_series == <<"s", "e", "r", "i", "e", "s">>

F_maintitle == <<"m", "a", "i", "n", "t", "i", "t", "l", "e">>

F_subtitle == <<"s", "u", "b", "t", "i", "t", "l", "e">>

F_volume == <<"v", "o", "l", "u", "m", "e">>

F_number == <<"n", "u", "m", "b", "e", "r">>

F_publisher == <<"p", "u", "b", "l", "i", "s", "h", "e", "r">>

F_location == <<"l", "o", "c", "a", "t", "i", "o", "n">>

F_isbn == <<"i", "s", "b", "n">>

F_pagetotal == <<"p", "a", "g", "e", "t", "o", "t", "a", "l">>

F_eprint == <<"e", "p", "r", "i", "n", "t">>

F_eprinttype == <<"e", "p", "r", "i", "n", "t", "t", "y", "p", "e">>

F_archiveprefix == <<"a", "r", "c", "h", "i", "v", "e", "p", "r", "e", "f", "i", "x">>

F_eprintclass == <<"e", "p", "r", "i", "n", "t", "c", "l", "a", "s", "s">>

F_primaryclass == <<"p", "r", "i", "m", "a", "r", "y", "c", "l", "a", "s", "s">>

F_version == <<"v", "e", "r", "s", "i", "o", "n">>

F_url == <<"u", "r", "l">>

F_pubstate == <<"p", "u", "b", "s", "t", "a", "t", "e">>

F_howpublished == <<"h", "o", "w", "p", "u", "b", "l", "i", "s", "h", "e", "d">>

F_note == <<"n", "o", "t", "e">>

F_doi == <<"d", "o", "i">>

F_file == <<"f", "i", "l", "e">>

F_comment == <<"c", "o", "m", "m", "e", "n", "t">>

F_abstract == <<"a", "b", "s", "t", "r", "a", "c", "t">>

ArXiv == <<"a", "r", "X", "i", "v">>

Preprint == <<"P", "r", "e", "p", "r", "i", "n", "t">>

AbsPrefix == <<"h", "t", "t", "p", "s", ":", "/", "/", "a", "r", "x", "i", "v", ".",
               "o", "r", "g", "/", "a", "b", "s", "/">>

DoiPrefix == <<"h", "t", "t", "p", "s", ":", "/", "/", "d", "x", ".", "d", "o", "i",
               ".", "o", "r", "g", "/">>

PdfExt == <<".", "p", "d", "f">>

PwshPrefix == <<"p", "w", "s", "h", SP, "-", "C", "o", "m", "m", "a", "n", "d", SP,
                "I", "n", "v", "o", "k", "e", "-", "W", "e", "b", "R", "e", "q", "u",
                "e", "s", "t", SP>>

PwshOut == <<SP, "-", "O", "u", "t", "F", "i", "l", "e", SP>>

WgetPrefix == <<"w", "g", "e", "t", SP, "-", "-", "u", "s", "e", "r", "-", "a", "g",
                "e", "n", "t", "=", "'", "M", "o", "z", "i", "l", "l", "a", "'", SP>>

WgetOut == <<SP, "-", "O", SP>>

Indent == <<SP, SP>>

EqBrace == <<SP, "=", SP, "{">>

CloseField == <<"}", ",", NL>>

-----------------------------------------------------------------------------
(* The pairing: an object whose keys keep their insertion order, modelled   *)
(* as a sequence of [k, v] without repeated k.                              *)

P(k, v) == [k |-> k, v |-> v]

HasKey(p, k) == \E i \in 1..Len(p) : p[i].k = k

\* p[k], undefined (Null) when p has no key k
Get(p, k) == IF HasKey(p, k) THEN p[CHOOSE i \in 1..Len(p) : p[i].k = k].v ELSE Null

\* p[k] = v: an existing key keeps its place, a new key goes last
Put(p, k, v) ==
    IF HasKey(p, k)
    THEN [i \in 1..Len(p) |-> IF p[i].k = k THEN P(k, v) ELSE p[i]]
    ELSE Append(p, P(k, v))

\* { ...p, ...q }
RECURSIVE Spread(_, _)
Spread(p, q) == IF Len(q) = 0 THEN p ELSE Spread(Put(p, q[1].k, q[1].v), Tail(q))

-----------------------------------------------------------------------------
(* buildPairing *)

\* generate a filename
FileName(s, k) ==
    (IF s.filePrefix THEN FirstOrUndefined(k) \o <<"/">> ELSE <<>>) \o k \o PdfExt

\* ... and link to the PDF, if any
FileLink(e, fileName) ==
    IF Truthy(e.pdfLink) THEN A(e.pdfLink.s, fileName) ELSE Str(fileName)

JournalRefLink(e) == IF Truthy(e.journalRef) THEN Abbr(e.journalRef.s) ELSE Null

DoiLink(e) == IF Truthy(e.doi) THEN A(DoiPrefix \o e.doi.s, e.doi.s) ELSE Null

\* a mutant: the series appended in both modes
Journal_seriesAlways(e, goodMode) ==
    IF Truthy(e.journal)
    THEN Str(e.journal.s \o (IF Truthy(e.series)
                             THEN <<SP, "(">> \o e.series.s \o <<")">>
                             ELSE <<>>))
    ELSE Null

\* journal name & series in bad mode
Journal(e, goodMode) ==
    IF Truthy(e.journal)
    THEN Str(e.journal.s \o (IF ~goodMode /\ Truthy(e.series)
                             THEN <<SP, "(">> \o e.series.s \o <<")">>
                             ELSE <<>>))
    ELSE Null

\* a mutant: the full date in both modes
DateOrYear_fullDate(e, goodMode) == e.date

\* BibTeX only supports a year, not a full date
DateOrYear(e, goodMode) == IF goodMode THEN e.date ELSE Slice0(e.date, YearLen)

BaseFields(e, goodMode, authorList) ==
    Spread(<<>>,
      << P(F_author, Str(authorList)),
         P(IF goodMode THEN F_date ELSE F_year, Str(DateOrYear(e, goodMode))),
         P(F_title, e.title),
         P(IF goodMode THEN F_journaltitle ELSE F_journal, Journal(e, goodMode)),
         P(F_series, IF goodMode THEN e.series ELSE Null),
         P(F_maintitle, e.mainTitle),
         P(F_subtitle, e.subTitle),
         P(F_volume, e.volume),
         P(F_number, e.number),
         P(F_publisher, e.publisher),
         P(F_location, e.location),
         P(F_isbn, e.ISBN),
         P(F_pagetotal, e.pageTotal) >>)

\* a mutant: the version not gated by settings.includeVersion
ArxivFields_versionUngated(e, s, goodMode) ==
    LET absURL == AbsPrefix \o e.id.s
    IN  << P(F_eprint, A(absURL, e.id.s)),
           P(IF goodMode THEN F_eprinttype ELSE F_archiveprefix, Str(ArXiv)),
           P(IF goodMode THEN F_eprintclass ELSE F_primaryclass,
             IF s.includePrimaryCategory THEN e.primaryCategory ELSE Null),
           P(F_version, IF goodMode THEN e.version ELSE Null),
           P(F_url, IF goodMode THEN Null ELSE Str(absURL)) >>

ArxivFields(e, s, goodMode) ==
    LET absURL == AbsPrefix \o e.id.s
    IN  << P(F_eprint, A(absURL, e.id.s)),
           P(IF goodMode THEN F_eprinttype ELSE F_archiveprefix, Str(ArXiv)),
           P(IF goodMode THEN F_eprintclass ELSE F_primaryclass,
             IF s.includePrimaryCategory THEN e.primaryCategory ELSE Null),
           P(F_version, IF goodMode /\ s.includeVersion THEN e.version ELSE Null),
           P(F_url, IF goodMode THEN Null ELSE Str(absURL)) >>

\* a mutant: "Preprint" whenever there is no journalRef
ModeFields_doiIgnored(e, goodMode) ==
    IF goodMode
    THEN << P(F_pubstate, e.pubstate),
            P(F_howpublished, JournalRefLink(e)) >>
    ELSE << P(F_note, IF Truthy(e.journalRef)
                      THEN JournalRefLink(e)
                      ELSE Str(Preprint)) >>

\* deal with mode
ModeFields(e, goodMode) ==
    IF goodMode
    THEN << P(F_pubstate, e.pubstate),
            P(F_howpublished, JournalRefLink(e)) >>
    ELSE << P(F_note, IF Truthy(e.doi) \/ Truthy(e.journalRef)
                      THEN JournalRefLink(e)
                      ELSE Str(Preprint)) >>

\* a mutant: the file put before the doi
EndFields_fileFirst(e, s, fileLink) ==
    << P(F_file, IF s.includeFile THEN fileLink ELSE Null),
       P(F_doi, DoiLink(e)),
       P(F_comment, e.comment),
       P(F_abstract, IF s.includeAbstract THEN e.abstract ELSE Null) >>

\* add at the end regardless of mode
EndFields(e, s, fileLink) ==
    << P(F_doi, DoiLink(e)),
       P(F_file, IF s.includeFile THEN fileLink ELSE Null),
       P(F_comment, e.comment),
       P(F_abstract, IF s.includeAbstract THEN e.abstract ELSE Null) >>

\* a mutant: only null and undefined deleted, empty strings kept
DeleteEmpty_nullOnly(p) == SelectSeq(p, LAMBDA x : x.v.kind # "null")

\* delete all empty values
DeleteEmpty(p) == SelectSeq(p, LAMBDA x : Truthy(x.v))

\* a mutant: the two shells exchanged
Wget_shellsSwapped(e, s, fileName) ==
    IF s.includeFile /\ Truthy(e.pdfLink)
    THEN IF ~s.wgetPowershell
         THEN Str(PwshPrefix \o e.pdfLink.s \o PwshOut \o s.fileFolder
                  \o <<"\\">> \o fileName)
         ELSE Str(WgetPrefix \o e.pdfLink.s \o WgetOut \o s.fileFolder
                  \o <<"/">> \o fileName)
    ELSE Null

\* the wget command, if any
Wget(e, s, fileName) ==
    IF s.includeFile /\ Truthy(e.pdfLink)
    THEN IF s.wgetPowershell
         THEN Str(PwshPrefix \o e.pdfLink.s \o PwshOut \o s.fileFolder
                  \o <<"\\">> \o fileName)
         ELSE Str(WgetPrefix \o e.pdfLink.s \o WgetOut \o s.fileFolder
                  \o <<"/">> \o fileName)
    ELSE Null

buildPairing(e, s) ==
    LET goodMode == s.mode = "biblatex"
        ka       == joinAuthorsGetKey(e.authors, e.date)
        fileName == FileName(s, ka.key)
        p1 == BaseFields(e, goodMode, ka.authorList)
        p2 == IF Truthy(e.id) THEN Spread(p1, ArxivFields(e, s, goodMode)) ELSE p1
        p3 == Spread(p2, ModeFields(e, goodMode))
        p4 == Spread(p3, EndFields(e, s, FileLink(e, fileName)))
    IN  [type    |-> e.type,
         pairing |-> DeleteEmpty(p4),
         key     |-> ka.key,
         wget    |-> Wget(e, s, fileName)]

-----------------------------------------------------------------------------
(* formatEntry *)

AbstractIndent == 6

\* the length of the longest key: Math.max(...Object.keys(pairing).map(length))
MaxKeyLength(p) ==
    CHOOSE m \in {Len(p[i].k) : i \in 1..Len(p)} :
        \A i \in 1..Len(p) : Len(p[i].k) <= m

\* s.replace(/\n/g, "\n" + pad)
RECURSIVE ReplaceNL(_, _)
ReplaceNL(s, pad) ==
    IF Len(s) = 0 THEN <<>>
    ELSE (IF Head(s) = NL THEN <<NL>> \o pad ELSE <<Head(s)>>)
         \o ReplaceNL(Tail(s), pad)

\* a mutant: the two spaces of indent forgotten
AbstractPad_noIndent(maxKeyLength) == Spaces(maxKeyLength + 4)

\* the padding put after every line break of the abstract
AbstractPad(maxKeyLength) == Spaces(maxKeyLength + AbstractIndent)

\* pad the abstract
PadAbstract(p, maxKeyLength) ==
    IF Truthy(Get(p, F_abstract))
    THEN Put(p, F_abstract,
             Str(ReplaceNL(Get(p, F_abstract).s, AbstractPad(maxKeyLength))))
    ELSE p

\* a mutant: one space too many
KeyPad_offByOne(maxKeyLength, k) == Spaces(maxKeyLength - Len(k) + 1)

\* pad to align all equal signs
KeyPad(maxKeyLength, k) == Spaces(maxKeyLength - Len(k))

\* one <React.Fragment key={key}>
FieldLine(maxKeyLength, x) ==
    Indent \o x.k \o KeyPad(maxKeyLength, x.k) \o EqBrace \o Text(x.v) \o CloseField

Header(t, k) == <<"@">> \o t \o <<"{">> \o k \o <<",", NL>>

RECURSIVE Concat(_)
Concat(l) == IF Len(l) = 0 THEN <<>> ELSE Head(l) \o Concat(Tail(l))

\* returns the text of the fragment and the pairing, whose abstract it pads
formatEntry(t, p, k) ==
    LET maxKeyLength == MaxKeyLength(p)
        padded == PadAbstract(p, maxKeyLength)
    IN  [text |-> Header(t, k)
                  \o Concat([i \in 1..Len(padded) |-> FieldLine(maxKeyLength, padded[i])])
                  \o <<"}">>,
         pairing |-> padded]

-----------------------------------------------------------------------------
(* EntryCard *)

\* shown only when settings.includeWget && wget
ShownWget(s, w) == IF s.includeWget /\ Truthy(w) THEN w ELSE Null

\* one render of the component
Render(e, s) ==
    LET b == buildPairing(e, s)
        f == formatEntry(b.type, b.pairing, b.key)
    IN  [type |-> b.type, pairing |-> f.pairing, key |-> b.key, wget |-> b.wget,
         formattedEntry |-> f.text, shownWget |-> ShownWget(s, b.wget)]

-----------------------------------------------------------------------------
(* The entries and settings the component is rendered with. *)

Date1 == <<"2", "0", "2", "0", "-", "0", "1", "-", "0", "1">>

ShortDate == <<"9", "9">>

Article == <<"a", "r", "t", "i", "c", "l", "e">>

Misc == <<"m", "i", "s", "c">>

Author1 == <<"a", SP, "b">>

Author2 == <<"e'", SP, SP, "d", SP, "g">>

OptionalFields ==
    {"journal", "series", "mainTitle", "subTitle", "volume", "number", "publisher",
     "location", "ISBN", "pageTotal", "id", "primaryCategory", "version", "pubstate",
     "journalRef", "doi", "pdfLink", "comment", "abstract"}

EntryFields == OptionalFields \cup {"authors", "date", "title", "type"}

\* the value a present optional field has
Sample(f) ==
    CASE f = "journal" -> <<"J">>
      [] f = "series" -> <<"S">>
      [] f = "mainTitle" -> <<"M">>
      [] f = "subTitle" -> <<"U">>
      [] f = "volume" -> <<"1">>
      [] f = "number" -> <<"2">>
      [] f = "publisher" -> <<"P">>
      [] f = "location" -> <<"L">>
      [] f = "ISBN" -> <<"3">>
      [] f = "pageTotal" -> <<"4">>
      [] f = "id" -> <<"I">>
      [] f = "primaryCategory" -> <<"C">>
      [] f = "version" -> <<"5">>
      [] f = "pubstate" -> <<"B">>
      [] f = "journalRef" -> <<"R">>
      [] f = "doi" -> <<"D">>
      [] f = "pdfLink" -> <<"K">>
      [] f = "comment" -> <<"c">>
      [] f = "abstract" -> <<"x">>

\* the same with one line break and with two consecutive ones
TwoLines(f) == Sample(f) \o <<NL, "y">>

Paragraphs(f) == Sample(f) \o <<NL, NL, "y">>

\* the values a field of the entry takes
FieldValues(f) ==
    CASE f = "authors" -> {<<>>, <<Author1>>, <<Author1, Author2>>}
      [] f = "date" -> {Date1, ShortDate}
      [] f = "title" -> {Str(<<"T">>), Str(<<"T", NL, "t">>)}
      [] f = "type" -> {Article, Misc}
      [] f \in {"comment", "abstract"} ->
            {Null, Str(Sample(f)), Str(TwoLines(f)), Str(Paragraphs(f))}
      [] f \in {"journal", "series", "id", "doi", "journalRef", "pdfLink"} ->
            {Null, Str(<<>>), Str(Sample(f))}
      [] OTHER -> {Null, Str(Sample(f))}

\* only the required fields
MinimalEntry ==
    [f \in EntryFields |->
        CASE f = "authors" -> <<Author1>>
          [] f = "date" -> Date1
          [] f = "title" -> Str(<<"T">>)
          [] f = "type" -> Article
          [] OTHER -> Null]

\* every field present
FullEntry ==
    [f \in EntryFields |->
        CASE f = "authors" -> <<Author1, Author2>>
          [] f = "date" -> Date1
          [] f = "title" -> Str(<<"T">>)
          [] f = "type" -> Article
          [] f \in {"comment", "abstract"} -> Str(TwoLines(f))
          [] OTHER -> Str(Sample(f))]

Modes == {"biblatex", "bibtex"}

Flags == {"filePrefix", "includeFile", "includeAbstract", "includeWget",
          "includeVersion", "includePrimaryCategory", "wgetPowershell"}

SettingsFields == Flags \cup {"mode", "fileFolder"}

SettingValues(f) ==
    CASE f = "mode" -> Modes
      [] f = "fileFolder" -> {<<"p">>, <<"q", "r">>}
      [] OTHER -> BOOLEAN

\* every switch off, or every switch on
UniformSettings(mode, on) ==
    [f \in SettingsFields |->
        CASE f = "mode" -> mode
          [] f = "fileFolder" -> <<"p">>
          [] OTHER -> on]

-----------------------------------------------------------------------------
(* EntryCard renders when it is mounted and whenever its entry prop or the  *)
(* selected settings change.                                                *)

Rendered(e, s) ==
    \E r \in {Render(e, s)} :
        /\ type' = r.type
        /\ pairing' = r.pairing
        /\ key' = r.key
        /\ wget' = r.wget
        /\ formattedEntry' = r.formattedEntry
        /\ shownWget' = r.shownWget

KeyIdle ==
    /\ kAuthors = <<>>
    /\ kDate = <<>>
    /\ kResult = [key |-> <<>>, authorList |-> <<>>]
    /\ kDone = FALSE

Init ==
    /\ entry \in {MinimalEntry, FullEntry}
    /\ settings \in {UniformSettings("bibtex", FALSE), UniformSettings("biblatex", TRUE)}
    /\ \E r \in {Render(entry, settings)} :
           /\ type = r.type
           /\ pairing = r.pairing
           /\ key = r.key
           /\ wget = r.wget
           /\ formattedEntry = r.formattedEntry
           /\ shownWget = r.shownWget
    /\ edits = 0
    /\ KeyIdle

\* the parent passes an entry that differs in one field
EntryChange ==
    /\ edits < MaxEdits
    /\ \E f \in EntryFields : \E v \in FieldValues(f) :
          /\ v # entry[f]
          /\ entry' = [entry EXCEPT ![f] = v]
    /\ settings' = settings
    /\ Rendered(entry', settings')
    /\ edits' = edits + 1
    /\ UNCHANGED keyVars

\* the settings slice of the store changes in one field
SettingsChange ==
    /\ edits < MaxEdits
    /\ \E f \in SettingsFields : \E v \in SettingValues(f) :
          /\ v # settings[f]
          /\ settings' = [settings EXCEPT ![f] = v]
    /\ entry' = entry
    /\ Rendered(entry', settings')
    /\ edits' = edits + 1
    /\ UNCHANGED keyVars

Next == EntryChange \/ SettingsChange

Spec == Init /\ [][Next]_vars

-----------------------------------------------------------------------------
(* Properties of the pairing.                                               *)

GoodMode == settings.mode = "biblatex"

Has(k) == HasKey(pairing, k)

ValueOf(k) == Get(pairing, k)

Present(f) == entry[f].kind = "str" /\ entry[f].s # <<>>

\* C5: the fixed order of the fields; a dialect's two names share a place
CanonicalOrder ==
    << {F_author}, {F_date, F_year}, {F_title}, {F_journaltitle, F_journal},
       {F_series}, {F_maintitle}, {F_subtitle}, {F_volume}, {F_number},
       {F_publisher}, {F_location}, {F_isbn}, {F_pagetotal}, {F_eprint},
       {F_eprinttype, F_archiveprefix}, {F_eprintclass, F_primaryclass},
       {F_version}, {F_url}, {F_pubstate}, {F_howpublished, F_note}, {F_doi},
       {F_file}, {F_comment}, {F_abstract} >>

Rank(k) == CHOOSE i \in 1..Len(CanonicalOrder) : k \in CanonicalOrder[i]

KnownName(k) == \E i \in 1..Len(CanonicalOrder) : k \in CanonicalOrder[i]

\* C6 as stated: in bad mode an entry with a doi or a journalRef has a note
\* field carrying the flag, an entry with neither has note = "Preprint"; in
\* good mode there is no note, and pubstate and howpublished are carried.
C6_NoteAsStated ==
    /\ ~GoodMode /\ (Present("doi") \/ Present("journalRef"))
         => Has(F_note) /\ ValueOf(F_note).kind = "abbr"
    /\ ~GoodMode /\ ~Present("doi") /\ ~Present("journalRef")
         => ValueOf(F_note) = Str(Preprint)
    /\ GoodMode => ~Has(F_note)

\* C6 amended: in bad mode the note is the flagged journalRef when the entry
\* has a journalRef, is absent when the entry has a doi but no journalRef, and
\* is "Preprint" when it has neither; in good mode there is no note, pubstate
\* is the entry's pubstate and howpublished the flagged journalRef, each
\* present exactly when the entry has it.
C6_Note ==
    /\ ~GoodMode /\ Present("journalRef")
         => ValueOf(F_note) = Abbr(entry.journalRef.s)
    /\ ~GoodMode /\ Present("doi") /\ ~Present("journalRef") => ~Has(F_note)
    /\ ~GoodMode /\ ~Present("doi") /\ ~Present("journalRef")
         => ValueOf(F_note) = Str(Preprint)
    /\ GoodMode =>
         /\ ~Has(F_note)
         /\ Has(F_pubstate) <=> Present("pubstate")
         /\ Present("pubstate") => ValueOf(F_pubstate) = entry.pubstate
         /\ Has(F_howpublished) <=> Present("journalRef")
         /\ Present("journalRef")
              => ValueOf(F_howpublished) = Abbr(entry.journalRef.s)

\* bad mode, a doi and no journalRef: the case the statement gets wrong
C6_Witness ==
    /\ ~GoodMode /\ Present("doi") /\ ~Present("journalRef") /\ ~Has(F_note)
    /\ edits > 0

GoodOnlyNames ==
    {F_date, F_journaltitle, F_series, F_eprinttype, F_eprintclass, F_version,
     F_pubstate, F_howpublished}

BadOnlyNames == {F_year, F_journal, F_archiveprefix, F_primaryclass, F_url, F_note}

\* C7: the field names never mix dialects; the date field is the full date in
\* good mode, the year field the first 4 characters of the date in bad mode.
C7_Dialect ==
    /\ GoodMode =>
         /\ \A i \in 1..Len(pairing) : pairing[i].k \notin BadOnlyNames
         /\ ValueOf(F_date) = Str(entry.date)
    /\ ~GoodMode =>
         /\ \A i \in 1..Len(pairing) : pairing[i].k \notin GoodOnlyNames
         /\ ValueOf(F_year) =
              Str([i \in 1..(IF Len(entry.date) < 4 THEN Len(entry.date) ELSE 4)
                      |-> entry.date[i]])

\* a bad-mode render of an entry that has an arXiv id, a series and a journal
C7_Witness ==
    /\ ~GoodMode /\ Present("id") /\ Present("series") /\ Present("journal")
    /\ Present("pubstate") /\ settings.includeVersion /\ Present("version")
    /\ Has(F_year) /\ Has(F_url)

\* C8: the journal field per dialect, and the series folded into it in bad mode
C8_Journal ==
    /\ Present("journal") /\ ~GoodMode =>
         /\ ValueOf(F_journal) =
              Str(IF Present("series")
                  THEN entry.journal.s \o <<SP, "(">> \o entry.series.s \o <<")">>
                  ELSE entry.journal.s)
         /\ ~Has(F_series)
    /\ Present("journal") /\ GoodMode =>
         /\ ValueOf(F_journaltitle) = Str(entry.journal.s)
         /\ Present("series") => ValueOf(F_series) = Str(entry.series.s)
    /\ ~Present("journal") => ~Has(F_journal) /\ ~Has(F_journaltitle)

\* bad mode with a journal and a series
C8_Witness ==
    /\ ~GoodMode /\ Present("journal") /\ Present("series")
    /\ Has(F_journal) /\ Len(ValueOf(F_journal).s) > Len(entry.journal.s)

\* C9: the optional fields are gated by their switches and by the arXiv id
C9_Gates ==
    /\ Has(F_file) <=> settings.includeFile
    /\ Has(F_abstract) => settings.includeAbstract
    /\ Has(F_eprintclass) \/ Has(F_primaryclass) => settings.includePrimaryCategory
    /\ Has(F_version) => settings.includeVersion
    /\ ~Present("id") =>
         \A k \in {F_eprint, F_eprinttype, F_archiveprefix, F_eprintclass,
                   F_primaryclass, F_version, F_url} : ~Has(k)
    /\ Present("id") =>
         /\ Has(F_eprint)
         /\ ValueOf(IF GoodMode THEN F_eprinttype ELSE F_archiveprefix) = Str(ArXiv)

\* an entry with everything but with the switches off, after a change
C9_Witness ==
    /\ Present("id") /\ Present("abstract") /\ Present("primaryCategory")
    /\ Present("version")
    /\ ~settings.includeAbstract /\ ~settings.includePrimaryCategory
    /\ ~settings.includeVersion /\ settings.includeFile
    /\ Has(F_eprint) /\ Has(F_file)

\* C10: the wget command exists exactly when includeFile is on and the entry
\* has a pdfLink; it has the POSIX or the PowerShell form, ends with the file
\* name of the file field, and is shown only when includeWget is on.
C10_Wget ==
    LET fileName == (IF settings.filePrefix THEN <<key[1], "/">> ELSE <<>>)
                    \o key \o PdfExt
    IN  /\ wget # Null <=> settings.includeFile /\ Present("pdfLink")
        /\ settings.includeFile => ValueOf(F_file).s = fileName
        /\ wget # Null /\ ~settings.wgetPowershell =>
             wget = Str(WgetPrefix \o entry.pdfLink.s \o WgetOut
                        \o settings.fileFolder \o <<"/">> \o fileName)
        /\ wget # Null /\ settings.wgetPowershell =>
             wget = Str(PwshPrefix \o entry.pdfLink.s \o PwshOut
                        \o settings.fileFolder \o <<"\\">> \o fileName)
        /\ shownWget # Null <=> wget # Null /\ settings.includeWget
        /\ shownWget # Null => shownWget = wget

\* a PowerShell command that is built and shown
C10_Witness ==
    /\ wget # Null /\ settings.wgetPowershell /\ settings.filePrefix
    /\ shownWget = wget /\ edits > 0

-----------------------------------------------------------------------------
(* Properties of the rendered block, read off its text.                     *)

\* the text has w at position p
Matches(t, p, w) == p + Len(w) - 1 <= Len(t) /\ \A j \in 1..Len(w) : t[p + j - 1] = w[j]

\* the positions at which a line of t starts
LineStarts(t) == {1} \cup {i + 1 : i \in {j \in 1..(Len(t) - 1) : t[j] = NL}}

\* the lines that start a field: two spaces of indent, then a name
FieldStarts(t) ==
    {p \in LineStarts(t) :
        p + 2 <= Len(t) /\ t[p] = SP /\ t[p + 1] = SP /\ t[p + 2] \notin Whitespace}

\* where the field lines of a block start when the header is followed by one
\* line per field and nothing else: each line is the indent, the name padded
\* to n characters, " = {", the value and "},", and ends with a line break
RECURSIVE Positions(_, _, _)
Positions(p, start, n) ==
    IF Len(p) = 0 THEN <<>>
    ELSE <<start>> \o Positions(Tail(p), start + 2 + n + 4 + Len(Head(p).v.s) + 3, n)

RECURSIVE SkipSpaces(_, _)
SkipSpaces(t, i) == IF i <= Len(t) /\ t[i] = SP THEN SkipSpaces(t, i + 1) ELSE i

\* the line breaks of t that are followed by an empty or all-space line
BlankLines(t) ==
    {i \in 1..Len(t) : t[i] = NL /\ LET j == SkipSpaces(t, i + 1)
                                  IN  j <= Len(t) /\ t[j] = NL}

RECURSIVE BlankLinesOfValues(_)
BlankLinesOfValues(p) ==
    IF Len(p) = 0 THEN 0
    ELSE Cardinality(BlankLines(Head(p).v.s)) + BlankLinesOfValues(Tail(p))

\* the length of the longest field name of the pairing
LongestName ==
    CHOOSE n \in {Len(pairing[i].k) : i \in 1..Len(pairing)} :
        \A i \in 1..Len(pairing) : n >= Len(pairing[i].k)

NoFalsyValue == \A i \in 1..Len(pairing) : Truthy(pairing[i].v)

\* no field line reads `name = {},`
NoDanglingField ==
    \A i \in 3..(Len(formattedEntry) - 1) :
        formattedEntry[i] = "{" /\ formattedEntry[i - 1] = SP
            /\ formattedEntry[i - 2] = "="
        => formattedEntry[i + 1] # "}"

\* C2 as stated: the pairing holds no falsy value, and the block has neither
\* a field with an empty value nor a blank line.
C2_NoBlankAsStated ==
    /\ NoFalsyValue
    /\ NoDanglingField
    /\ BlankLines(formattedEntry) = {}

\* C2 amended: the pairing holds no falsy value and the block has no field
\* with an empty value; its only blank lines are those a value itself
\* contains (consecutive line breaks inside a comment, an abstract, ...).
C2_NoEmptyField ==
    /\ NoFalsyValue
    /\ NoDanglingField
    /\ Cardinality(BlankLines(formattedEntry)) = BlankLinesOfValues(pairing)

\* fields with empty and null values were dropped, and a value brings a blank line
C2_Witness ==
    /\ \E f \in OptionalFields : entry[f] = Str(<<>>)
    /\ \E f \in OptionalFields : entry[f] = Null
    /\ BlankLines(formattedEntry) # {}
    /\ Len(pairing) > 3

\* where the field lines of the rendered block are expected to start
ExpectedStarts ==
    Positions(pairing, 1 + Len(entry.type) + 1 + Len(key) + 2 + 1, LongestName)

\* C3: header, then one field line per pairing entry with every `=` at
\* column 2 + L + 1 (after the indent, the name, the padding and one space),
\* then the closing brace.
C3_Aligned ==
    LET t == formattedEntry
        L == LongestName
        E == ExpectedStarts
    IN  /\ Matches(t, 1, <<"@">> \o entry.type \o <<"{">> \o key \o <<",", NL>>)
        /\ t[Len(t)] = "}" /\ t[Len(t) - 1] = NL
        /\ FieldStarts(t) = {E[n] : n \in 1..Len(E)}
        /\ \A n \in 1..Len(pairing) :
              LET p == E[n]
                  k == pairing[n].k
              IN  /\ t[p] = SP /\ t[p + 1] = SP
                  /\ \A j \in 1..Len(k) : t[p + 1 + j] = k[j]
                  /\ \A j \in (Len(k) + 1)..L : t[p + 1 + j] = SP
                  /\ t[p + 2 + L] = SP
                  /\ t[p + 2 + L + 1] = "="
                  /\ t[p + 2 + L + 2] = SP
                  /\ t[p + 2 + L + 3] = "{"

\* names of at least three lengths, so that some lines are padded
C3_Witness ==
    /\ Cardinality({Len(pairing[i].k) : i \in 1..Len(pairing)}) >= 3
    /\ Has(F_archiveprefix)
    /\ edits > 0

\* s with n spaces put after each of its line breaks
RECURSIVE Indented(_, _)
Indented(s, n) ==
    IF Len(s) = 0 THEN <<>>
    ELSE LET c == s[Len(s)]
         IN  Indented(SubSeq(s, 1, Len(s) - 1), n)
             \o (IF c = NL THEN <<NL>> \o [j \in 1..n |-> SP] ELSE <<c>>)

\* the lines of the block other than the header, the field lines and the
\* closing brace: the lines that continue a value
ContinuationStarts(t) == (LineStarts(t) \ FieldStarts(t)) \ {1, Len(t)}

\* C4 as stated: every line that continues a value starts with L + 6 spaces
C4_AllValuesIndentedAsStated ==
    LET t == formattedEntry
        L == LongestName
    IN  \A p \in ContinuationStarts(t) : Matches(t, p, [j \in 1..(L + 6) |-> SP])

\* C4 amended: only the abstract is re-indented: each of its line breaks is
\* followed by L + 6 spaces, which is the column where its first line starts;
\* every other value (comment, title, ...) is rendered as it is, with its
\* line breaks unchanged.
C4_AbstractIndented ==
    LET t == formattedEntry
        L == LongestName
        E == ExpectedStarts
    IN  /\ \A n \in 1..Len(pairing) :
              LET p == E[n] + L + 6
                  v == pairing[n].v.s
              IN  /\ p + Len(v) + 2 <= Len(t)
                  /\ \A j \in 1..Len(v) : t[p + j - 1] = v[j]
                  /\ t[p + Len(v)] = "}"
                  /\ t[p + Len(v) + 1] = ","
                  /\ t[p + Len(v) + 2] = NL
        /\ Has(F_abstract) => ValueOf(F_abstract).s = Indented(entry.abstract.s, L + 6)
        /\ Has(F_comment) => ValueOf(F_comment).s = entry.comment.s
        /\ ValueOf(F_title).s = entry.title.s

\* an abstract and a comment of several lines are both rendered
C4_Witness ==
    /\ Has(F_abstract) /\ Has(F_comment)
    /\ \E i \in 1..Len(entry.abstract.s) : entry.abstract.s[i] = NL
    /\ \E i \in 1..Len(entry.comment.s) : entry.comment.s[i] = NL

\* C5: the fields keep one fixed relative order whatever is omitted, no name
\* occurs twice, and the block lists them in the order of the pairing.
C5_Order ==
    LET t == formattedEntry
        E == ExpectedStarts
    IN  /\ \A i \in 1..Len(pairing) : KnownName(pairing[i].k)
        /\ \A i \in 1..(Len(pairing) - 1) : Rank(pairing[i].k) < Rank(pairing[i + 1].k)
        /\ FieldStarts(t) = {E[n] : n \in 1..Len(E)}
        /\ \A n \in 1..Len(pairing) : Matches(t, E[n] + 2, pairing[n].k \o <<SP>>)

\* a bad-mode render with fields of every group and one omitted
C5_Witness ==
    /\ Has(F_author) /\ Has(F_pagetotal) /\ Has(F_eprint) /\ Has(F_url)
    /\ Has(F_note) /\ Has(F_doi) /\ Has(F_file) /\ Has(F_abstract)
    /\ ~Has(F_volume)

-----------------------------------------------------------------------------
(* joinAuthorsGetKey on its own: the arguments are drawn, the function is   *)
(* applied once.                                                            *)

Alphabet == {"a", EAcute, SP}

\* the names of n characters without leading or trailing whitespace, as the
\* callers pass them
TrimmedNames(n) == {a \in [1..n -> Alphabet] : a[1] # SP /\ a[n] # SP}

\* the author lists of at most n characters in all
RECURSIVE NameLists(_)
NameLists(n) ==
    {<<>>} \cup UNION {{<<a>> \o rest : a \in TrimmedNames(k), rest \in NameLists(n - k)}
                          : k \in 1..n}

Dates == {Date1, ShortDate, <<>>}

InitKey ==
    /\ kAuthors \in NameLists(MaxTotalLen)
    /\ kDate \in Dates
    /\ kResult = [key |-> <<>>, authorList |-> <<>>]
    /\ kDone = FALSE
    /\ entry = MinimalEntry
    /\ settings = UniformSettings("bibtex", FALSE)
    /\ \E r \in {Render(entry, settings)} :
           /\ type = r.type
           /\ pairing = r.pairing
           /\ key = r.key
           /\ wget = r.wget
           /\ formattedEntry = r.formattedEntry
           /\ shownWget = r.shownWget
    /\ edits = 0

JoinAuthorsGetKey ==
    /\ ~kDone
    /\ kResult' = joinAuthorsGetKey(kAuthors, kDate)
    /\ kDone' = TRUE
    /\ UNCHANGED <<kAuthors, kDate>>
    /\ UNCHANGED renderVars

NextKey == JoinAuthorsGetKey

SpecKey == InitKey /\ [][NextKey]_vars

\* the position of the last whitespace of a name, 0 when it has none
LastWhitespace(a) ==
    LET W == {0} \cup {i \in 1..Len(a) : a[i] \in Whitespace}
    IN  CHOOSE i \in W : \A j \in W : j <= i

\* the last whitespace-separated token of a name
Surname(a) == SubSeq(a, LastWhitespace(a) + 1, Len(a))

\* s from position i on, each run of whitespace that precedes a token
\* written as one space, the whitespace that ends s dropped
RECURSIVE Squeezed(_, _)
Squeezed(s, i) ==
    IF i > Len(s) THEN <<>>
    ELSE IF s[i] \notin Whitespace THEN <<s[i]>> \o Squeezed(s, i + 1)
    ELSE IF i < Len(s) /\ s[i + 1] \notin Whitespace THEN <<SP>> \o Squeezed(s, i + 1)
    ELSE Squeezed(s, i + 1)

\* the tokens before the last one, joined by single spaces
GivenNames(a) == Squeezed(SubSeq(a, 1, LastWhitespace(a)), 1)

RECURSIVE ExpectedAuthorList(_)
ExpectedAuthorList(l) ==
    IF Len(l) = 0 THEN <<>>
    ELSE Surname(l[1]) \o <<",", SP>> \o GivenNames(l[1])
         \o (IF Len(l) = 1 THEN <<>> ELSE <<SP, "a", "n", "d", SP>>)
         \o ExpectedAuthorList(Tail(l))

RECURSIVE Surnames(_)
Surnames(l) == IF Len(l) = 0 THEN <<>> ELSE Surname(l[1]) \o Surnames(Tail(l))

Unaccented(s) == [i \in 1..Len(s) |-> IF s[i] = "e'" THEN "e" ELSE s[i]]

\* C1: the key is the accent-stripped concatenation of the surnames, in
\* order, followed by the first 4 characters of the date (all of it when it
\* is shorter); the author list writes each author as "surname, given names"
\* and joins them with " and "; no author gives an empty list and the year.
C1_KeyAndAuthorList ==
    kDone =>
        /\ kResult.key =
              Unaccented(Surnames(kAuthors))
              \o [i \in 1..(IF Len(kDate) < 4 THEN Len(kDate) ELSE 4) |-> kDate[i]]
        /\ kResult.authorList = ExpectedAuthorList(kAuthors)
        /\ kAuthors = <<>> =>
              /\ kResult.authorList = <<>>
              /\ kResult.key = SubSeq(kDate, 1, IF Len(kDate) < 4 THEN Len(kDate) ELSE 4)

\* two authors, an accent, two consecutive spaces and a full date
C1_Witness ==
    /\ kDone
    /\ Len(kAuthors) = 2
    /\ \E n \in 1..2 : \E i \in 1..Len(kAuthors[n]) : kAuthors[n][i] = EAcute
    /\ \E n \in 1..2 : \E i \in 1..(Len(kAuthors[n]) - 1) :
          kAuthors[n][i] = SP /\ kAuthors[n][i + 1] = SP
    /\ Len(kDate) > 4
    /\ Len(kResult.key) = 6

====
